---- MODULE Spec2Model ----
(***************************************************************************)
(* pdfkiwi (src/pdfkiwi.py): the page list of the editor (PageList), its   *)
(* drag-and-drop reordering, the discard surface (TrashBox), the drop      *)
(* planner (_compute_drop_position) and the export (MainWindow.create_pdf).*)
(*                                                                         *)
(* Rows are 0-based as in the source; TLA+ sequences are 1-based, so row r *)
(* of the list is element r+1 of the sequence.                             *)
(***************************************************************************)
EXTENDS Integers, Sequences, FiniteSets, Bags, TLC

VARIABLES
    items,       \* PageList rows: the PageRef stored in each item (Qt.UserRole)
    selected,    \* rows of PageList.selectedIndexes()
    drop_index,  \* PageList._drop_index (None or a row)
    drag,        \* the drag gesture in progress: "none", "internal", "external"
    hover,       \* where the drag is w.r.t. the list: "out", "entered", "moved"
    last,        \* history: the last handler that ran, with the state it started from
    drag_items,  \* history: the rows when the drag in progress started
    drag_selected, \* history: the selected rows when the drag in progress started
    batch,       \* history: the paths the last logged add_pdfs was called with
    load_errors, \* history: the paths the last logged add_pdfs showed a "Load error" box for
    geom,        \* planner: the geometry snapshot handed to _compute_drop_position
    pos,         \* planner: the pointer position of the last call
    planned,     \* planner: what the last call returned
    pc,          \* create_pdf: position in the handler
    pages,       \* create_pdf: the list _gather_current_pages returned
    idx,         \* create_pdf: loop counter of the extraction loop
    part_files,  \* create_pdf: the list part_files
    tmp_files,   \* files present in temporary directories of the export
    out_file,    \* content of out_path
    out_before,  \* history: content of out_path when the running/last create_pdf began
    calls,       \* external primitives invoked by the running/last create_pdf
    report,      \* the message box the last create_pdf ended with
    tools        \* which of pdfseparate / pdfunite command_exists finds

uiVars == <<items, selected, drop_index, drag, hover, last, drag_items, drag_selected>>
addVars == <<batch, load_errors>>
plannerVars == <<geom, pos, planned>>
exportVars == <<pc, pages, idx, part_files, tmp_files, out_file, out_before, calls, report, tools>>
vars == <<items, selected, drop_index, drag, hover, last, drag_items, drag_selected,
          batch, load_errors, geom, pos, planned,
          pc, pages, idx, part_files, tmp_files, out_file, out_before, calls, report, tools>>

-----------------------------------------------------------------------------
(* Bounds of the model *)

\* most rows the list holds (add_pdfs is not offered beyond it)
MaxItems == 3
\* most items per row of the wrapping grid (the viewport's width)
MaxCols == 2
\* most paths handed to add_pdfs in one batch
MaxBatch == 2

-----------------------------------------------------------------------------
(* Values *)

\* Python's None for _drop_index
None == -1

\* the source documents of a session with what _count_pages yields for each:
\* a page count, 0 (no usable count) or "raise" (fitz.open fails)
Docs == {"a.pdf", "b.pdf", "empty.pdf", "corrupt.pdf"}

count_pages(p) ==
    CASE p = "a.pdf" -> 2
      [] p = "b.pdf" -> 1
      [] p = "empty.pdf" -> 0
      [] OTHER -> -1

\* os.path.abspath(p): a path is its directory and its file name
abspath(p) == <<"/docs", p>>
\* os.path.basename(path)
basename(path) == path[Len(path)]

PageRef(p, i) == [src_path |-> p, page_index |-> i]

\* the PageRefs add_pdfs makes of the readable documents
PageRefs == {PageRef(abspath(p), i) : p \in {"a.pdf"}, i \in 0..1} \cup {PageRef(abspath("b.pdf"), 0)}

\* all sequences over S of length at most n
SeqsUpTo(S, n) == UNION {[1..k -> S] : k \in 0..n}

Min(S) == CHOOSE x \in S : \A y \in S : x <= y
Max(S) == CHOOSE x \in S : \A y \in S : x >= y

\* sorted(S): the rows of S in ascending order
RECURSIVE sorted(_)
sorted(S) == IF S = {} THEN <<>> ELSE <<Min(S)>> \o sorted(S \ {Min(S)})

\* sorted(S, reverse=True)
RECURSIVE sorted_reverse(_)
sorted_reverse(S) == IF S = {} THEN <<>> ELSE <<Max(S)>> \o sorted_reverse(S \ {Max(S)})

-----------------------------------------------------------------------------
(* QListWidget: rows and selection *)

\* QListWidget.takeItem(row): the list without row r (unchanged when r is no row)
takeItem(l, r) ==
    IF r \in 0..(Len(l) - 1)
    THEN [j \in 1..(Len(l) - 1) |-> IF j <= r THEN l[j] ELSE l[j + 1]]
    ELSE l

\* the item takeItem(row) returns
itemAt(l, r) == l[r + 1]

\* QListWidget.insertItem(row, item): row is clamped into 0..count
insertItem(l, r, it) ==
    LET row == IF r < 0 THEN 0 ELSE IF r > Len(l) THEN Len(l) ELSE r
    IN  [j \in 1..(Len(l) + 1) |->
            IF j <= row THEN l[j] ELSE IF j = row + 1 THEN it ELSE l[j - 1]]

\* the selection model after row r was removed
selAfterTake(sel, r) == {s \in sel : s < r} \cup {s - 1 : s \in {t \in sel : t > r}}

\* the selection model after a row was inserted at r (the new row is unselected)
selAfterInsert(sel, r) == {s \in sel : s < r} \cup {s + 1 : s \in {t \in sel : t >= r}}

-----------------------------------------------------------------------------
(* PageList.remove_selected and MainWindow._trash_from_list *)

\* for r in rows: takeItem(r), over a [list, sel] pair; k counts the rows done
RECURSIVE remove_loop(_, _, _)
remove_loop(w, rows, k) ==
    IF k >= Len(rows) THEN w
    ELSE remove_loop([list |-> takeItem(w.list, rows[k + 1]),
                      sel |-> selAfterTake(w.sel, rows[k + 1])], rows, k + 1)

\* a variant of remove_rows that takes the lowest row first
remove_rows_ascending(sel) == sorted(sel)

\* rows = sorted({i.row() for i in self.selectedIndexes()}, reverse=True)
remove_rows(sel) == sorted_reverse(sel)

\* remove_selected: take every selected row, highest row first
remove_selected(l, sel) == remove_loop([list |-> l, sel |-> sel], remove_rows(sel), 0)

\* a variant of trash_from_list that takes only the highest selected row
trash_from_list_highest(l, sel) ==
    IF sel = {} THEN [list |-> l, sel |-> sel]
    ELSE remove_loop([list |-> l, sel |-> sel], <<Max(sel)>>, 0)

\* _trash_from_list(lst): the same loop, run on the list the drag came from
trash_from_list(l, sel) == remove_loop([list |-> l, sel |-> sel], sorted_reverse(sel), 0)

-----------------------------------------------------------------------------
(* PageList.dropEvent: the relocation *)

\* items = [self.takeItem(r - k) for k, r in enumerate(selected_rows)]
take_row(r, k) == r - k

RECURSIVE take_loop(_, _, _)
take_loop(w, rows, k) ==
    IF k >= Len(rows) THEN w
    ELSE LET r == take_row(rows[k + 1], k)
         IN  take_loop([list |-> takeItem(w.list, r),
                        sel |-> selAfterTake(w.sel, r),
                        taken |-> Append(w.taken, itemAt(w.list, r))], rows, k + 1)

\* a variant of removed_before that also counts a selected row at the target
removed_before_le(rows, insert_at) ==
    Cardinality({k \in 1..Len(rows) : rows[k] <= insert_at})

\* removed_before = sum(1 for r in selected_rows if r < insert_at)
removed_before(rows, insert_at) ==
    Cardinality({k \in 1..Len(rows) : rows[k] < insert_at})

\* a variant of insert_row that reinserts every item at the same row
insert_row_same(insert_at, i) == insert_at

\* for i, it in enumerate(items): self.insertItem(insert_at + i, it)
insert_row(insert_at, i) == insert_at + i

RECURSIVE insert_loop(_, _, _, _)
insert_loop(w, its, insert_at, i) ==
    IF i >= Len(its) THEN w
    ELSE insert_loop([list |-> insertItem(w.list, insert_row(insert_at, i), its[i + 1]),
                      sel |-> selAfterInsert(w.sel, insert_row(insert_at, i))],
                     its, insert_at, i + 1)

\* a variant of relocate that inserts at _drop_index as it is
relocate_no_adjust(l, sel, di) ==
    LET selected_rows == sorted(sel)
        t == take_loop([list |-> l, sel |-> sel, taken |-> <<>>], selected_rows, 0)
    IN  insert_loop([list |-> t.list, sel |-> t.sel], t.taken, di, 0)

\* the body of dropEvent once _drop_index and the selection are both present
relocate(l, sel, di) ==
    LET selected_rows == sorted(sel)
        t == take_loop([list |-> l, sel |-> sel, taken |-> <<>>], selected_rows, 0)
        insert_at == di - removed_before(selected_rows, di)
    IN  insert_loop([list |-> t.list, sel |-> t.sel], t.taken, insert_at, 0)

-----------------------------------------------------------------------------
(* Geometry: QListWidget in IconMode, LeftToRight flow, wrapping, uniform   *)
(* item sizes                                                               *)

\* setSpacing(10)
Spacing == 10
\* item.setSizeHint(QSize(132, 190))
ItemW == 132
ItemH == 190

QRect(x, y, w, h) == [left |-> x, top |-> y, width |-> w, height |-> h]
QPoint(x, y) == [x |-> x, y |-> y]

right(r) == r.left + r.width - 1
bottom(r) == r.top + r.height - 1
\* QRect.center().x()
center_x(r) == (r.left + right(r)) \div 2

\* visualItemRect of each row when n items wrap after cols items per row
Grid(n, cols) ==
    [j \in 1..n |-> QRect(Spacing + ((j - 1) % cols) * (ItemW + Spacing),
                          Spacing + ((j - 1) \div cols) * (ItemH + Spacing),
                          ItemW, ItemH)]

\* self.visualItemRect(self.item(i)) for the list as it is
visualItemRect(l) == Grid(Len(l), MaxCols)

-----------------------------------------------------------------------------
(* PageList._compute_drop_position *)

\* tol_y = max(6, self.spacing())
tol_y == IF 6 > Spacing THEN 6 ELSE Spacing

\* r.top() - tol_y <= pos.y() <= r.bottom() + tol_y
in_row(r, p) == r.top - tol_y <= p.y /\ p.y <= bottom(r) + tol_y

\* row.sort(key=lambda t: t[1].left()): a stable sort of rows that are in index order
RECURSIVE sort_row(_, _)
sort_row(rects, S) ==
    IF S = {} THEN <<>>
    ELSE LET first == CHOOSE i \in S : \A j \in S :
                          \/ rects[i + 1].left < rects[j + 1].left
                          \/ rects[i + 1].left = rects[j + 1].left /\ i <= j
         IN  <<first>> \o sort_row(rects, S \ {first})

\* a variant of left_of_center that also takes a pointer on the center
left_of_or_on_center(p, rect) == p.x <= center_x(rect)

\* if pos.x() < cx
left_of_center(p, rect) == p.x < center_x(rect)

\* for idx, rect in row: ... return idx, rect, True; after the loop: the last one, False
RECURSIVE walk_row(_, _, _, _)
walk_row(rects, row, k, p) ==
    IF k > Len(row)
    THEN [idx |-> row[Len(row)], rect |-> rects[row[Len(row)] + 1], before |-> FALSE]
    ELSE IF left_of_center(p, rects[row[k] + 1])
         THEN [idx |-> row[k], rect |-> rects[row[k] + 1], before |-> TRUE]
         ELSE walk_row(rects, row, k + 1, p)

\* a variant of clamp_no_row that answers count, not count - 1, below the grid
clamp_no_row_count(rects, p) ==
    LET count == Len(rects)
    IN  IF p.y < rects[1].top
        THEN [idx |-> 0, rect |-> rects[1], before |-> TRUE]
        ELSE [idx |-> count, rect |-> rects[count], before |-> FALSE]

\* the clamp taken when no item's row holds the pointer
clamp_no_row(rects, p) ==
    LET count == Len(rects)
    IN  IF p.y < rects[1].top
        THEN [idx |-> 0, rect |-> rects[1], before |-> TRUE]
        ELSE [idx |-> count - 1, rect |-> rects[count], before |-> FALSE]

\* _compute_drop_position over a geometry snapshot (the rects of rows 0..count-1)
compute_drop_position(rects, p) ==
    LET count == Len(rects)
        row == {i \in 0..(count - 1) : in_row(rects[i + 1], p)}
    IN  IF count = 0 THEN [idx |-> 0, rect |-> QRect(12, 12, 40, 80), before |-> TRUE]
        ELSE IF row = {} THEN clamp_no_row(rects, p)
        ELSE walk_row(rects, sort_row(rects, row), 1, p)

\* dragMoveEvent: self._drop_index = idx if before else idx + 1
target_of(d) == IF d.before THEN d.idx ELSE d.idx + 1

\* pointer positions tried: just left of and on every column's center and on its
\* right edge; above the
\* grid (QPoint coordinates are signed), and for every row of the tallest grid
\* its top, the end of its tolerance band and the line below that
PointerXs == UNION {{center_x(Grid(MaxCols, MaxCols)[c]) - 1, center_x(Grid(MaxCols, MaxCols)[c]),
                     right(Grid(MaxCols, MaxCols)[c])} : c \in 1..MaxCols}
PointerYs == {0 - 1} \cup
             UNION {{Grid(MaxItems, 1)[r].top, bottom(Grid(MaxItems, 1)[r]) + tol_y,
                     bottom(Grid(MaxItems, 1)[r]) + tol_y + 1} : r \in 1..MaxItems}
Pointers == {QPoint(x, y) : x \in PointerXs, y \in PointerYs}

-----------------------------------------------------------------------------
(* MainWindow.add_pdfs *)

\* a loop over range(1, n_pages + 1)
RECURSIVE append_pages_one_based(_, _, _, _)
append_pages_one_based(l, p, n_pages, i) ==
    IF i >= n_pages THEN l
    ELSE append_pages_one_based(Append(l, PageRef(abspath(p), i + 1)), p, n_pages, i + 1)

\* for i in range(n_pages): self._append_page_item(PageRef(src_path=p, page_index=i))
RECURSIVE append_pages(_, _, _, _)
append_pages(l, p, n_pages, i) ==
    IF i >= n_pages THEN l
    ELSE append_pages(Append(l, PageRef(abspath(p), i)), p, n_pages, i + 1)

\* for p in paths: a source whose count raises or is <= 0 adds nothing
RECURSIVE add_pdfs(_, _, _)
add_pdfs(l, paths, k) ==
    IF k > Len(paths) THEN l
    ELSE add_pdfs(append_pages(l, paths[k], count_pages(paths[k]), 0), paths, k + 1)

\* the paths add_pdfs shows error_box("Load error", ...) for: those whose count
\* raises; a count <= 0 takes the "continue" and shows nothing
RECURSIVE add_pdfs_errors(_, _)
add_pdfs_errors(paths, k) ==
    IF k > Len(paths) THEN <<>>
    ELSE (IF count_pages(paths[k]) = -1 THEN <<paths[k]>> ELSE <<>>)
             \o add_pdfs_errors(paths, k + 1)

\* the batches a file dialog or a file drop hands over
Batches == SeqsUpTo(Docs, MaxBatch) \ {<<>>}

-----------------------------------------------------------------------------
(* The editor: handlers of PageList, TrashBox, DropBox and MainWindow *)

\* the history record of a handler that started from list l, selection sel, target di
Hist(op, l, sel, di, kind) ==
    [op |-> op, items |-> l, selected |-> sel, target |-> di, kind |-> kind]
NoHist(op) == Hist(op, <<>>, {}, None, "none")

UIInit ==
    /\ items = <<>>
    /\ selected = {}
    /\ drop_index = None
    /\ drag = "none"
    /\ hover = "out"
    /\ last = NoHist("init")
    /\ drag_items = <<>>
    /\ drag_selected = {}

\* no logged add_pdfs yet
AddIdle == batch = <<>> /\ load_errors = <<>>

\* no call of _compute_drop_position yet
NotPlanned == [idx |-> None, rect |-> QRect(0, 0, 0, 0), before |-> FALSE]

PlannerIdle == geom = <<>> /\ pos = QPoint(0, 0) /\ planned = NotPlanned

\* no message box shown by create_pdf
Report(kind, tool, src, page, diag) ==
    [kind |-> kind, tool |-> tool, src |-> src, page |-> page, diag |-> diag]
NoReport == Report("none", "", "", 0, "")

ExportIdle ==
    /\ pc = "idle"
    /\ pages = <<>>
    /\ idx = 0
    /\ part_files = <<>>
    /\ tmp_files = {}
    /\ out_file = "absent"
    /\ out_before = "absent"
    /\ calls = <<>>
    /\ report = NoReport
    /\ tools = {"pdfseparate", "pdfunite"}

\* DropBox.mousePressEvent -> add_pdfs(files), and DropBox.dropEvent of a file drag
AddPdfs ==
    /\ \/ drag = "none"
       \/ drag = "external" /\ hover = "out"
    /\ \E l \in {add_pdfs(items, paths, 1) : paths \in Batches} :
          /\ Len(l) <= MaxItems
          /\ items' = l
    /\ drag' = "none"
    /\ last' = NoHist("add_pdfs")
    /\ drag_items' = <<>>
    /\ drag_selected' = {}
    /\ UNCHANGED <<addVars, plannerVars, exportVars>>
    /\ UNCHANGED <<selected, drop_index, hover>>

\* the user changes the selection (ExtendedSelection) while no drag is under way
Select ==
    /\ drag = "none"
    /\ \E S \in SUBSET (0..(Len(items) - 1)) :
          /\ S # selected
          /\ selected' = S
    /\ last' = NoHist("other")
    /\ UNCHANGED <<drag_items, drag_selected>>
    /\ UNCHANGED <<addVars, plannerVars, exportVars>>
    /\ UNCHANGED <<items, drop_index, drag, hover>>

\* keyPressEvent(Key_Delete) / context menu "Remove selected"
RemoveSelected ==
    /\ drag = "none"
    /\ LET w == remove_selected(items, selected)
       IN  /\ items' = w.list
           /\ selected' = w.sel
    /\ last' = Hist("remove_selected", items, selected, drop_index, drag)
    /\ UNCHANGED <<drag_items, drag_selected>>
    /\ UNCHANGED <<addVars, plannerVars, exportVars>>
    /\ UNCHANGED <<drop_index, drag, hover>>

\* MainWindow.clear_all
ClearAll ==
    /\ drag = "none"
    /\ items # <<>>
    /\ items' = <<>>
    /\ selected' = {}
    /\ last' = NoHist("clear_all")
    /\ UNCHANGED <<drag_items, drag_selected>>
    /\ UNCHANGED <<addVars, plannerVars, exportVars>>
    /\ UNCHANGED <<drop_index, drag, hover>>

\* a drag of the selected items starts in the list (setDragEnabled(True))
StartDrag ==
    /\ drag = "none"
    /\ selected # {}
    /\ drag' = "internal"
    /\ hover' = "out"
    /\ last' = NoHist("other")
    /\ drag_items' = items
    /\ drag_selected' = selected
    /\ UNCHANGED <<addVars, plannerVars, exportVars>>
    /\ UNCHANGED <<items, selected, drop_index>>

\* files are dragged into the window from another application
ExternalDrag ==
    /\ drag = "none"
    /\ drag' = "external"
    /\ hover' = "out"
    /\ last' = NoHist("other")
    /\ drag_items' = items
    /\ drag_selected' = selected
    /\ UNCHANGED <<addVars, plannerVars, exportVars>>
    /\ UNCHANGED <<items, selected, drop_index>>

\* PageList.dragEnterEvent: accepts every drag
DragEnterEvent ==
    /\ drag # "none"
    /\ hover = "out"
    /\ hover' = "entered"
    /\ last' = NoHist("other")
    /\ UNCHANGED <<drag_items, drag_selected>>
    /\ UNCHANGED <<addVars, plannerVars, exportVars>>
    /\ UNCHANGED <<items, selected, drop_index, drag>>

\* a dragMoveEvent that already moves the dragged rows to the target it computes
DragMoveEventLive ==
    /\ drag # "none"
    /\ hover # "out"
    /\ \E p \in Pointers :
          LET d == compute_drop_position(visualItemRect(items), p)
              w == IF selected = {} THEN [list |-> items, sel |-> selected]
                   ELSE relocate(items, selected, target_of(d))
          IN  /\ drop_index' = target_of(d)
              /\ items' = w.list
              /\ selected' = w.sel
    /\ hover' = "moved"
    /\ last' = NoHist("other")
    /\ UNCHANGED <<drag, drag_items, drag_selected>>
    /\ UNCHANGED <<addVars, plannerVars, exportVars>>

\* a dragMoveEvent that also selects the item it computes the target from
DragMoveEventSelecting ==
    /\ drag # "none"
    /\ hover # "out"
    /\ \E p \in Pointers :
          LET d == compute_drop_position(visualItemRect(items), p)
          IN  /\ drop_index' = target_of(d)
              /\ selected' = IF d.idx \in 0..(Len(items) - 1) THEN selected \cup {d.idx} ELSE selected
    /\ hover' = "moved"
    /\ last' = NoHist("other")
    /\ UNCHANGED <<items, drag, drag_items, drag_selected>>
    /\ UNCHANGED <<addVars, plannerVars, exportVars>>

\* the values `idx if before else idx + 1` that dragMoveEvent can store over a
\* list of n rows, for the pointer positions tried: visualItemRect depends on
\* the number of rows only, so they are computed once per n
drop_targets ==
    [n \in 0..MaxItems |->
        {target_of(compute_drop_position(Grid(n, MaxCols), p)) : p \in Pointers}]

\* PageList.dragMoveEvent
DragMoveEvent ==
    /\ drag # "none"
    /\ hover # "out"
    /\ \E t \in drop_targets[Len(items)] :
          drop_index' = t
    /\ hover' = "moved"
    /\ last' = NoHist("other")
    /\ UNCHANGED <<drag_items, drag_selected>>
    /\ UNCHANGED <<addVars, plannerVars, exportVars>>
    /\ UNCHANGED <<items, selected, drag>>

\* the drag leaves the list without a drop (dragLeaveEvent is not overridden)
DragLeave ==
    /\ drag # "none"
    /\ hover # "out"
    /\ hover' = "out"
    /\ last' = NoHist("other")
    /\ UNCHANGED <<drag_items, drag_selected>>
    /\ UNCHANGED <<addVars, plannerVars, exportVars>>
    /\ UNCHANGED <<items, selected, drop_index, drag>>

\* PageList.leaveEvent
LeaveEvent ==
    /\ drop_index # None
    /\ drop_index' = None
    /\ last' = NoHist("other")
    /\ UNCHANGED <<drag_items, drag_selected>>
    /\ UNCHANGED <<addVars, plannerVars, exportVars>>
    /\ UNCHANGED <<items, selected, drag, hover>>

\* super().dropEvent(e), the drop handler of QListWidget, which the source hands
\* the event to when it has no target or no selected row. The list has
\* DragDrop mode and MoveAction as default action: for a drag of its own rows
\* the handler of the toolkit either leaves the rows alone (it only shifts the
\* icons) or moves the selected rows itself to the row it finds under the
\* pointer, depending on the toolkit's version and the position of the drop;
\* a drag of files carries no rows and leaves the list as it is.
super_dropEvent(l, sel, kind) ==
    IF kind = "internal" /\ sel # {}
    THEN {[list |-> l, sel |-> sel]} \cup {relocate(l, sel, t) : t \in 0..Len(l)}
    ELSE {[list |-> l, sel |-> sel]}

\* PageList.dropEvent; Qt sends a drag move after every drag enter, so a drop
\* follows at least one dragMoveEvent
DropEvent ==
    /\ drag # "none"
    /\ hover = "moved"
    /\ IF drop_index = None \/ selected = {}
       THEN \* return super().dropEvent(e)
            /\ \E w \in super_dropEvent(items, selected, drag) :
                  /\ items' = w.list
                  /\ selected' = w.sel
            /\ UNCHANGED drop_index
       ELSE LET w == relocate(items, selected, drop_index)
            IN  /\ items' = w.list
                /\ selected' = w.sel
                /\ drop_index' = None
    /\ drag' = "none"
    /\ hover' = "out"
    /\ last' = Hist("dropEvent", items, selected, drop_index, drag)
    /\ drag_items' = <<>>
    /\ drag_selected' = {}
    /\ UNCHANGED <<addVars, plannerVars, exportVars>>

\* TrashBox.dropEvent: only a drag whose source is a QListWidget is acted on
TrashDrop ==
    /\ drag # "none"
    /\ hover = "out"
    /\ IF drag = "internal"
       THEN LET w == trash_from_list(items, selected)
            IN  /\ items' = w.list
                /\ selected' = w.sel
       ELSE UNCHANGED <<items, selected>>
    /\ drag' = "none"
    /\ last' = Hist("trashDrop", items, selected, drop_index, drag)
    /\ drag_items' = <<>>
    /\ drag_selected' = {}
    /\ UNCHANGED <<addVars, plannerVars, exportVars>>
    /\ UNCHANGED <<drop_index, hover>>

\* the drag ends on no accepting surface
DragCancel ==
    /\ drag # "none"
    /\ drag' = "none"
    /\ hover' = "out"
    /\ last' = NoHist("dragCancel")
    /\ drag_items' = <<>>
    /\ drag_selected' = {}
    /\ UNCHANGED <<addVars, plannerVars, exportVars>>
    /\ UNCHANGED <<items, selected, drop_index>>

Init == UIInit /\ AddIdle /\ PlannerIdle /\ ExportIdle

Next ==
    \/ AddPdfs
    \/ Select
    \/ RemoveSelected
    \/ ClearAll
    \/ StartDrag
    \/ ExternalDrag
    \/ DragEnterEvent
    \/ DragMoveEvent
    \/ DragLeave
    \/ LeaveEvent
    \/ DropEvent
    \/ TrashDrop
    \/ DragCancel

Spec == Init /\ [][Next]_vars

-----------------------------------------------------------------------------
(* Properties of the relocation and of the removal *)

\* the items of l at the rows of S, in the order of l, from row r on
RECURSIVE KeepRows(_, _, _)
KeepRows(l, S, r) ==
    IF r >= Len(l) THEN <<>>
    ELSE (IF r \in S THEN <<l[r + 1]>> ELSE <<>>) \o KeepRows(l, S, r + 1)

Rows(l) == 0..(Len(l) - 1)

\* adjustedTarget = targetIndex - |{i in selected : i < targetIndex}|
AdjustedTarget(sel, target) == target - Cardinality({i \in sel : i < target})

\* the unselected items in their order, the selected ones inserted as one block
Relocated(l, sel, target) ==
    LET rest == KeepRows(l, Rows(l) \ sel, 0)
        block == KeepRows(l, sel, 0)
        adj == AdjustedTarget(sel, target)
    IN  SubSeq(rest, 1, adj) \o block \o SubSeq(rest, adj + 1, Len(rest))

BagOfSeq(l) == [v \in {l[j] : j \in 1..Len(l)} |-> Cardinality({j \in 1..Len(l) : l[j] = v})]

\* the last handler was a dropEvent that relocated a selection
DropRelocated ==
    /\ last.op = "dropEvent"
    /\ last.selected # {}
    /\ last.target \in 0..Len(last.items)

\* C1: a drop that relocates a non-empty selection to a target in 0..N leaves the
\* unselected items in their original order with the selected items, in their
\* original order, inserted as one block at targetIndex minus the number of
\* selected rows before it; [A,B,C,D,E] with {1,3} to 4 gives [A,C,B,D,E]
RelocateExact ==
    /\ DropRelocated => items = Relocated(last.items, last.selected, last.target)
    /\ relocate(<<"A", "B", "C", "D", "E">>, {1, 3}, 4).list = <<"A", "C", "B", "D", "E">>

\* a drop moved two rows that were not adjacent and changed the order
RelocateExactWitness ==
    /\ DropRelocated
    /\ last.selected = {0, 2}
    /\ last.target = 3
    /\ items # last.items

\* C2: after a relocation the list is a permutation of the list before it, the
\* selected items lie contiguously from the adjusted target on in their old
\* relative order, and the unselected items keep their relative order
RelocatePermutation ==
    DropRelocated =>
        LET adj == AdjustedTarget(last.selected, last.target)
            k == Cardinality(last.selected)
        IN  /\ Len(items) = Len(last.items)
            /\ BagOfSeq(items) = BagOfSeq(last.items)
            /\ adj \in 0..(Len(items) - k)
            /\ SubSeq(items, adj + 1, adj + k) = KeepRows(last.items, last.selected, 0)
            /\ KeepRows(items, Rows(items) \ (adj..(adj + k - 1)), 0)
                  = KeepRows(last.items, Rows(last.items) \ last.selected, 0)

\* a drop moved two distinct pages to the front, past an unselected one
RelocatePermutationWitness ==
    /\ DropRelocated
    /\ last.selected = {1, 2}
    /\ last.target = 0
    /\ last.items[2] # last.items[3]
    /\ items[1] = last.items[2]

\* the last handler removed the selection: remove_selected, or a drop of a drag
\* from the list on the TrashBox
Removed ==
    \/ last.op = "remove_selected"
    \/ last.op = "trashDrop" /\ last.kind = "internal"

\* C3: removing the rows of S leaves exactly the items at the rows not in S, in
\* their original order
RemoveRestricts ==
    Removed => items = KeepRows(last.items, Rows(last.items) \ last.selected, 0)

\* rows 0 and 2 of three were dropped on the TrashBox and row 1 is what is left
RemoveRestrictsWitness ==
    /\ last.op = "trashDrop"
    /\ last.kind = "internal"
    /\ Len(last.items) = 3
    /\ last.selected = {0, 2}
    /\ items = <<last.items[2]>>

-----------------------------------------------------------------------------
(* The drop planner alone: _compute_drop_position over the layouts of the   *)
(* list and the pointer positions                                           *)

\* the layouts of 0..MaxItems items in 1..MaxCols columns
Layouts == {Grid(n, c) : n \in 0..MaxItems, c \in 1..MaxCols}

PlannerInit ==
    /\ UIInit
    /\ AddIdle
    /\ ExportIdle
    /\ geom \in Layouts
    /\ pos = QPoint(0, 0)
    /\ planned = NotPlanned

\* idx, rect, before = self._compute_drop_position(pos)
ComputeDropPosition ==
    /\ \E p \in Pointers :
          /\ pos' = p
          /\ planned' = compute_drop_position(geom, p)
    /\ UNCHANGED geom
    /\ UNCHANGED <<uiVars, addVars, exportVars>>

PlannerNext == ComputeDropPosition

PlannerSpec == PlannerInit /\ [][PlannerNext]_vars

\* the rows whose vertical span, widened by the tolerance, holds the pointer
ActiveRow(rects, p) ==
    {i \in 0..(Len(rects) - 1) :
        rects[i + 1].top - tol_y <= p.y /\ p.y <= rects[i + 1].top + rects[i + 1].height - 1 + tol_y}

\* the horizontal center of row i's rectangle
CenterOf(rects, i) == (2 * rects[i + 1].left + rects[i + 1].width - 1) \div 2

Planned == planned # NotPlanned

\* C4: with the pointer in an active row the planner answers (i, true) for the
\* item of the row with the leftmost left edge among those whose center is
\* strictly right of the pointer, and (rightmost item, false) when there is none;
\* the answer changes only where the pointer crosses a center (centers 50 and
\* 150: x=49 before the left item, x=51 and the shared edge before the right
\* item, x=151 after the right item)
CenterBoundary ==
    /\ (Planned /\ ActiveRow(geom, pos) # {}) =>
          LET row == ActiveRow(geom, pos)
              ahead == {i \in row : CenterOf(geom, i) > pos.x}
          IN  /\ planned.rect = geom[planned.idx + 1]
              /\ ahead # {} =>
                    /\ planned.before
                    /\ planned.idx \in ahead
                    /\ \A j \in ahead : geom[planned.idx + 1].left <= geom[j + 1].left
              /\ ahead = {} =>
                    /\ ~planned.before
                    /\ planned.idx \in row
                    /\ \A j \in row : geom[j + 1].left <= geom[planned.idx + 1].left
              /\ \A q \in Pointers :
                    (/\ q.y = pos.y
                     /\ \A i \in row : (pos.x < CenterOf(geom, i)) <=> (q.x < CenterOf(geom, i)))
                    => compute_drop_position(geom, q) = planned
    /\ LET two == <<QRect(1, 0, 100, 100), QRect(101, 0, 100, 100)>>
           at(x) == compute_drop_position(two, QPoint(x, 50))
       IN  /\ CenterOf(two, 0) = 50 /\ CenterOf(two, 1) = 150
           /\ at(49).idx = 0 /\ at(49).before
           /\ at(51).idx = 1 /\ at(51).before
           /\ at(100).idx = 1 /\ at(100).before
           /\ at(101).idx = 1 /\ at(101).before
           /\ at(151).idx = 1 /\ ~at(151).before

\* the pointer is in a row of two items, exactly on the center of the left one,
\* and the planner answers "before the right one"
CenterBoundaryWitness ==
    /\ Planned
    /\ Cardinality(ActiveRow(geom, pos)) = 2
    /\ pos.x = CenterOf(geom, 0)
    /\ planned.idx = 1
    /\ planned.before

\* C5: with items present and the pointer in no row, the planner answers (0, true)
\* when the pointer is above the first item's rectangle and (lastIndex, false)
\* otherwise, and otherwise the pointer is below the last item's rectangle
ClampOutsideRows ==
    (Planned /\ Len(geom) > 0 /\ ActiveRow(geom, pos) = {}) =>
        IF pos.y < geom[1].top
        THEN planned.idx = 0 /\ planned.before /\ planned.rect = geom[1]
        ELSE /\ planned.idx = Len(geom) - 1
             /\ ~planned.before
             /\ planned.rect = geom[Len(geom)]
             /\ pos.y > geom[Len(geom)].top + geom[Len(geom)].height - 1

\* the pointer is below the second row of a grid and the planner answers
\* "after the last item"
ClampOutsideRowsWitness ==
    /\ Planned
    /\ Len(geom) = 3
    /\ ActiveRow(geom, pos) = {}
    /\ pos.y > geom[3].top
    /\ planned.idx = 2
    /\ ~planned.before

-----------------------------------------------------------------------------
(* MainWindow.create_pdf: export via pdfseparate + pdfunite *)

\* command_exists(cmd), given the commands `which` finds
command_exists(cmd, installed) == cmd \in installed

Which(cmd) == [op |-> "which", cmd |-> cmd]

\* a variant of create_pdf_begin that looks for the tools before it looks at the pages
create_pdf_begin_tools_first(pgs, installed) ==
    LET looked == IF command_exists("pdfseparate", installed)
                  THEN <<Which("pdfseparate"), Which("pdfunite")>>
                  ELSE <<Which("pdfseparate")>>
    IN  IF ~command_exists("pdfseparate", installed) \/ ~command_exists("pdfunite", installed)
        THEN [proceed |-> FALSE, calls |-> looked,
              report |-> Report("Missing tools", "pdfseparate and pdfunite", "", 0, "")]
        ELSE IF pgs = <<>>
        THEN [proceed |-> FALSE, calls |-> looked,
              report |-> Report("Nothing to export", "", "", 0, "")]
        ELSE [proceed |-> TRUE, calls |-> looked, report |-> NoReport]

\* create_pdf up to the file dialog: `if not pages`, then the two command_exists
\* (`or` does not evaluate its right side when the left one decides)
create_pdf_begin(pgs, installed) ==
    LET looked == IF command_exists("pdfseparate", installed)
                  THEN <<Which("pdfseparate"), Which("pdfunite")>>
                  ELSE <<Which("pdfseparate")>>
    IN  IF pgs = <<>>
        THEN [proceed |-> FALSE, calls |-> <<>>,
              report |-> Report("Nothing to export", "", "", 0, "")]
        ELSE IF ~command_exists("pdfseparate", installed) \/ ~command_exists("pdfunite", installed)
        THEN [proceed |-> FALSE, calls |-> looked,
              report |-> Report("Missing tools", "pdfseparate and pdfunite", "", 0, "")]
        ELSE [proceed |-> TRUE, calls |-> looked, report |-> NoReport]

\* the decimal digits of n, most significant first
RECURSIVE Digits(_)
Digits(n) == IF n < 10 THEN <<n>> ELSE Append(Digits(n \div 10), n % 10)

\* f"{idx:05d}": zero-padded to at least five digits
format_05d(n) ==
    LET d == Digits(n)
    IN  IF Len(d) >= 5 THEN d ELSE [j \in 1..(5 - Len(d)) |-> 0] \o d

\* single_path = os.path.join(tmpdir, f"part_{idx:05d}.pdf")
single_path(n) == [dir |-> "tmpdir", stem |-> "part_", digits |-> format_05d(n), ext |-> ".pdf"]

\* a variant of extract_cmd that passes the 0-based page index to the tool
extract_cmd_zero_based(pr, dest) ==
    [op |-> "pdfseparate", first |-> pr.page_index, last |-> pr.page_index,
     src |-> pr.src_path, dest |-> dest]

\* cmd = ["pdfseparate", "-f", str(pr.page_index + 1), "-l", str(pr.page_index + 1),
\*        pr.src_path, single_path]
extract_cmd(pr, dest) ==
    [op |-> "pdfseparate", first |-> pr.page_index + 1, last |-> pr.page_index + 1,
     src |-> pr.src_path, dest |-> dest]

\* cmd = ["pdfunite", *part_files, out_path]
merge_cmd(parts) == [op |-> "pdfunite", inputs |-> parts, dest |-> "out_path"]

\* what a run of pdfseparate can come back with: the return code, whether
\* single_path exists afterwards, and its stderr
SepResults ==
    {[returncode |-> 0, exists |-> TRUE, stderr |-> ""],
     [returncode |-> 1, exists |-> FALSE, stderr |-> "pdfseparate: error"],
     [returncode |-> 1, exists |-> TRUE, stderr |-> "pdfseparate: error"],
     [returncode |-> 0, exists |-> FALSE, stderr |-> ""]}

\* what a run of pdfunite can come back with: the return code, how much of
\* out_path it wrote before it ended, and its stderr
UniteResults ==
    {[returncode |-> 0, wrote |-> "all", stderr |-> ""],
     [returncode |-> 1, wrote |-> "nothing", stderr |-> "pdfunite: error"],
     [returncode |-> 1, wrote |-> "part", stderr |-> "pdfunite: error"]}

\* the file pdfseparate leaves at dest: pages first..last (1-based) of src
separated(cmd, r) ==
    [name |-> cmd.dest,
     content |-> IF r.returncode = 0 THEN PageRef(cmd.src, cmd.first - 1) ELSE "garbage"]

\* a variant of extract_failed that trusts the return code alone
extract_failed_rc_only(r) == r.returncode # 0

\* if r.returncode != 0 or not os.path.exists(single_path)
extract_failed(r) == r.returncode # 0 \/ ~r.exists

\* if r.returncode != 0
merge_failed(r) == r.returncode # 0

\* pdfunite cannot succeed on an input file that is not there
inputs_exist(parts, files) == \A k \in 1..Len(parts) : \E f \in files : f.name = parts[k]

\* what pdfunite leaves at out_path: it writes there directly
united(parts, files, r, before) ==
    CASE r.wrote = "all" ->
            [k \in 1..Len(parts) |-> (CHOOSE f \in files : f.name = parts[k]).content]
      [] r.wrote = "part" -> "partial"
      [] OTHER -> before

\* a variant of cleanup that leaves the files of the directory behind
cleanup_leak(files) == files

\* leaving `with tempfile.TemporaryDirectory(...)`: the directory and all in it go
cleanup(files) == {}

\* create_pdf from its first line to the file dialog and the creation of tmpdir
CreatePdf ==
    /\ pc = "idle"
    /\ pages' = items
    /\ out_before' = out_file
    /\ part_files' = <<>>
    /\ LET b == create_pdf_begin(items, tools)
       IN  /\ calls' = b.calls
           /\ \/ /\ ~b.proceed
                 /\ report' = b.report
                 /\ pc' = "idle"
                 /\ idx' = 0
              \/ \* the file dialog is dismissed: `if not out_path: return`
                 /\ b.proceed
                 /\ report' = NoReport
                 /\ pc' = "idle"
                 /\ idx' = 0
              \/ /\ b.proceed
                 /\ report' = NoReport
                 /\ pc' = "extract"
                 /\ idx' = 1
    /\ UNCHANGED <<tmp_files, out_file, tools>>
    /\ UNCHANGED <<uiVars, addVars, plannerVars>>

\* one round of `for idx, pr in enumerate(pages, start=1)`; a failure raises, which
\* leaves the with block and is reported by `except Exception`
Extract ==
    /\ pc = "extract"
    /\ idx <= Len(pages)
    /\ \E r \in SepResults :
          LET pr == pages[idx]
              cmd == extract_cmd(pr, single_path(idx))
              files == IF r.exists THEN tmp_files \cup {separated(cmd, r)} ELSE tmp_files
          IN  /\ calls' = Append(calls, [op |-> cmd.op, cmd |-> cmd, result |-> r])
              /\ IF extract_failed(r)
                 THEN /\ tmp_files' = cleanup(files)
                      /\ report' = Report("Export error", "pdfseparate",
                                          basename(pr.src_path), pr.page_index + 1, r.stderr)
                      /\ pc' = "idle"
                      /\ UNCHANGED <<part_files, idx>>
                 ELSE /\ tmp_files' = files
                      /\ part_files' = Append(part_files, single_path(idx))
                      /\ idx' = idx + 1
                      /\ UNCHANGED <<report, pc>>
    /\ UNCHANGED <<pages, out_file, out_before, tools>>
    /\ UNCHANGED <<uiVars, addVars, plannerVars>>

\* after the loop: pdfunite, the end of the with block, and the message box
Merge ==
    /\ pc = "extract"
    /\ idx > Len(pages)
    /\ \E r \in UniteResults :
          LET cmd == merge_cmd(part_files)
          IN  /\ r.returncode = 0 => inputs_exist(part_files, tmp_files)
              /\ calls' = Append(calls, [op |-> cmd.op, cmd |-> cmd, result |-> r])
              /\ out_file' = united(part_files, tmp_files, r, out_file)
              /\ report' = IF merge_failed(r)
                           THEN Report("Export error", "pdfunite", "", 0, r.stderr)
                           ELSE Report("Done", "", "", 0, "")
    /\ tmp_files' = cleanup(tmp_files)
    /\ pc' = "idle"
    /\ UNCHANGED <<pages, idx, part_files, out_before, tools>>
    /\ UNCHANGED <<uiVars, addVars, plannerVars>>

\* the arrangements the editor can hold, the tools installed, and whether out_path
\* exists already
ExportInit ==
    /\ items \in SeqsUpTo(PageRefs, MaxItems)
    /\ selected = {}
    /\ drop_index = None
    /\ drag = "none"
    /\ hover = "out"
    /\ last = NoHist("init")
    /\ drag_items = <<>>
    /\ drag_selected = {}
    /\ AddIdle
    /\ PlannerIdle
    /\ pc = "idle"
    /\ pages = <<>>
    /\ idx = 0
    /\ part_files = <<>>
    /\ tmp_files = {}
    /\ out_file \in {"absent", "old"}
    /\ out_before = out_file
    /\ calls = <<>>
    /\ report = NoReport
    /\ tools \in SUBSET {"pdfseparate", "pdfunite"}

ExportNext == CreatePdf \/ Extract \/ Merge

ExportSpec == ExportInit /\ [][ExportNext]_vars

-----------------------------------------------------------------------------
(* Properties of the export *)

IsSeparate(c) == c.op = "pdfseparate"
IsUnite(c) == c.op = "pdfunite"
Extractions == SelectSeq(calls, IsSeparate)
Merges == SelectSeq(calls, IsUnite)

\* the characters of a part file's name after "part_", "." sorting before any digit
NameKey(f) == Append(f.digits, 0 - 1)

\* a sorts strictly before b, character by character
LexLess(a, b) ==
    \/ \E i \in 1..Len(a) :
          /\ i <= Len(b)
          /\ \A j \in 1..(i - 1) : a[j] = b[j]
          /\ a[i] < b[i]
    \/ Len(a) < Len(b) /\ \A j \in 1..Len(a) : a[j] = b[j]

Exported == pc = "idle" /\ report.kind = "Done"

FailedExtraction(c) ==
    IsSeparate(c) /\ (c.result.returncode # 0 \/ ~c.result.exists)

\* C7: a failed extraction is the last primitive the export invokes (no further
\* extraction, no merge); the export is over, out_path is as it was, the error
\* names the failing page's source and page with the tool's stderr, and no
\* temporary file is left
ExtractFailureAborts ==
    \A k \in 1..Len(calls) :
        FailedExtraction(calls[k]) =>
            LET n == Len(Extractions)
            IN  /\ k = Len(calls)
                /\ Merges = <<>>
                /\ pc = "idle"
                /\ out_file = out_before
                /\ tmp_files = {}
                /\ report.kind = "Export error"
                /\ report.tool = "pdfseparate"
                /\ report.src = items[n].src_path[2]
                /\ report.page = items[n].page_index + 1
                /\ report.diag = calls[k].result.stderr

\* the third extraction of three failed, leaving no file, while out_path existed
ExtractFailureAbortsWitness ==
    /\ Len(items) = 3
    /\ Len(Extractions) = 3
    /\ FailedExtraction(calls[Len(calls)])
    /\ ~calls[Len(calls)].result.exists
    /\ out_before = "old"
    /\ pc = "idle"

MergeFailedReported == pc = "idle" /\ report.kind = "Export error" /\ report.tool = "pdfunite"

\* C8: a failed merge is reported with pdfunite's diagnostic and leaves out_path
\* absent or with its previous content, never with a partly written file
MergeFailureKeepsOutput ==
    MergeFailedReported =>
        /\ report.diag = calls[Len(calls)].result.stderr
        /\ out_file = out_before
        /\ out_file # "partial"

\* C9: whenever create_pdf is not running, no temporary file of it exists
NoTempFilesLeft == pc = "idle" => tmp_files = {}

\* an export that had written two part files ended in a failed merge
NoTempFilesLeftWitness ==
    /\ MergeFailedReported
    /\ Len(part_files) = 2
    /\ tmp_files = {}

\* C10: with an empty arrangement create_pdf reports "Nothing to export" and has
\* invoked nothing: no command_exists, no pdfseparate, no pdfunite; no temporary
\* file and no change of out_path
EmptyExportDoesNothing ==
    items = <<>> =>
        /\ pc = "idle"
        /\ report.kind \in {"none", "Nothing to export"}
        /\ calls = <<>>
        /\ tmp_files = {}
        /\ part_files = <<>>
        /\ out_file = out_before
        /\ out_file \in {"absent", "old"}

\* create_pdf ran on an empty arrangement with neither tool installed
EmptyExportDoesNothingWitness ==
    /\ items = <<>>
    /\ tools = {}
    /\ report.kind = "Nothing to export"
    /\ calls = <<>>

\* how a message names the tools that are missing
MissingNamed(installed) ==
    CASE installed = {"pdfunite"} -> "pdfseparate"
      [] installed = {"pdfseparate"} -> "pdfunite"
      [] OTHER -> "pdfseparate and pdfunite"

\* create_pdf ran on a non-empty arrangement with a tool missing
MissingToolExport ==
    /\ pc = "idle"
    /\ items # <<>>
    /\ tools # {"pdfseparate", "pdfunite"}
    /\ report.kind # "none"

\* C11: with pdfseparate or pdfunite missing, create_pdf on a non-empty arrangement
\* shows one "Missing tools" error that says which tool is missing, before any
\* temporary file, pdfseparate, pdfunite or output file; it is never an
\* "Export error" of a page
MissingToolReported ==
    MissingToolExport =>
        /\ report.kind = "Missing tools"
        /\ \A k \in 1..Len(calls) : calls[k].op = "which"
        /\ tmp_files = {}
        /\ part_files = <<>>
        /\ out_file = out_before
        /\ report.tool = MissingNamed(tools)

-----------------------------------------------------------------------------
(* add_pdfs with its message boxes, from any arrangement *)

\* add_pdfs(paths) from the file dialog, with the boxes it shows
AddPdfsBatch ==
    /\ drag = "none"
    /\ pc = "idle"
    /\ Len(items) <= MaxItems
    /\ \E paths \in Batches :
          /\ items' = add_pdfs(items, paths, 1)
          /\ batch' = paths
          /\ load_errors' = add_pdfs_errors(paths, 1)
    /\ last' = Hist("add_pdfs", items, selected, drop_index, drag)
    /\ UNCHANGED <<selected, drop_index, drag, hover, drag_items, drag_selected>>
    /\ UNCHANGED <<plannerVars, exportVars>>

AddInit ==
    /\ items \in SeqsUpTo(PageRefs, MaxItems)
    /\ selected = {}
    /\ drop_index = None
    /\ drag = "none"
    /\ hover = "out"
    /\ last = NoHist("init")
    /\ drag_items = <<>>
    /\ drag_selected = {}
    /\ AddIdle
    /\ PlannerIdle
    /\ ExportIdle

AddNext == AddPdfsBatch

AddSpec == AddInit /\ [][AddNext]_vars

\* the pages 0..n-1 of a document with n pages, none if the count is not positive
PagesOf(p) ==
    IF count_pages(p) <= 0 THEN <<>>
    ELSE [i \in 1..count_pages(p) |-> PageRef(abspath(p), i - 1)]

\* the pages of the readable documents of paths[k..], in the order of paths
RECURSIVE PagesOfBatch(_, _)
PagesOfBatch(paths, k) ==
    IF k > Len(paths) THEN <<>> ELSE PagesOf(paths[k]) \o PagesOfBatch(paths, k + 1)

\* the last handler was a logged add_pdfs
Added == last.op = "add_pdfs" /\ batch # <<>>

\* the sources of the batch whose count failed: it raised or was not positive
FailedSources == {k \in 1..Len(batch) : count_pages(batch[k]) <= 0}

\* C12: every source of a batch whose page count fails adds no page, is reported
\* in a "Load error" box, and every other source of the batch is appended in full
UnreadableSkippedAndReported ==
    Added =>
        /\ items = last.items \o PagesOfBatch(batch, 1)
        /\ \A k \in FailedSources :
              /\ \A r \in 1..Len(items) : basename(items[r].src_path) # batch[k]
              /\ \E e \in 1..Len(load_errors) : load_errors[e] = batch[k]

\* how many pages the sources paths[1..k-1] add
RECURSIVE PagesBefore(_, _)
PagesBefore(paths, k) ==
    IF k <= 1 THEN 0
    ELSE PagesBefore(paths, k - 1) + Max({count_pages(paths[k - 1]), 0})

\* C16: add_pdfs keeps the previous rows as a prefix and appends, for every
\* readable source of the batch in batch order, its n pages as PageRefs with
\* page indices 0..n-1 in that order; the count grows by the sum of the n
AppendInBatchOrder ==
    Added =>
        /\ Len(items) = Len(last.items) + PagesBefore(batch, Len(batch) + 1)
        /\ SubSeq(items, 1, Len(last.items)) = last.items
        /\ \A k \in 1..Len(batch) : \A i \in 0..(count_pages(batch[k]) - 1) :
              items[Len(last.items) + PagesBefore(batch, k) + i + 1]
                  = PageRef(abspath(batch[k]), i)

AppendInBatchOrderWitness ==
    /\ Added
    /\ batch = <<"b.pdf", "a.pdf">>
    /\ last.items # <<>>
    /\ Len(items) = Len(last.items) + 3

-----------------------------------------------------------------------------
(* Drops without a target, aborted drags, the discard surface *)

\* C13: a drop on the list while the pending target is None changes no row: the
\* arrangement after the drop equals the arrangement before it
NoTargetDropIsNoop ==
    (last.op = "dropEvent" /\ last.target = None) => items = last.items

\* C14: while a drag is under way every step other than a drop on the list, on
\* the discard surface or on the add surface (so every pointer move, enter and
\* leave, and the abort of the drag) starts and ends with the arrangement the
\* drag started from
AbortedDragKeepsArrangement ==
    [][(drag # "none" /\ last'.op \notin {"dropEvent", "trashDrop", "add_pdfs"})
          => (items = drag_items /\ items' = items)]_vars

AbortedDragKeepsArrangementWitness ==
    /\ last.op = "dragCancel"
    /\ drop_index # None
    /\ Len(items) >= 2
    /\ selected # {}

\* C15: a drop on the TrashBox of a drag that comes from the page list removes
\* exactly the selected rows and keeps the others in their order (none is
\* moved); a drop of any other drag changes neither the rows nor the selection
DiscardDropRemovesSelection ==
    last.op = "trashDrop" =>
        IF last.kind = "internal"
        THEN /\ Len(items) = Len(last.items) - Cardinality(last.selected)
             /\ items = KeepRows(last.items, Rows(last.items) \ last.selected, 0)
        ELSE /\ items = last.items
             /\ selected = last.selected

\* files dragged from another application were dropped on the TrashBox while
\* rows were selected
DiscardDropRemovesSelectionWitness ==
    /\ last.op = "trashDrop"
    /\ last.kind = "external"
    /\ last.selected # {}
    /\ Len(items) >= 2
    /\ items = last.items

\* the selection is the rows s..s+k-1
Contiguous(sel) == sel # {} /\ sel = Min(sel)..Max(sel)

\* C18: a drop that relocates a contiguous selection s..s+k-1 to a target in
\* s..s+k leaves the sequence as it was
RelocateToSelf ==
    (/\ DropRelocated
     /\ Contiguous(last.selected)
     /\ last.target \in Min(last.selected)..(Max(last.selected) + 1))
        => items = last.items

\* rows 0,1 of three were dropped at target 2, right behind themselves
RelocateToSelfWitness ==
    /\ DropRelocated
    /\ Len(last.items) = 3
    /\ last.selected = {0, 1}
    /\ last.target = 2
    /\ items = last.items

\* C19: from the start of a drag to its end the selected rows are the rows that
\* were selected when it started, whatever the pointer hovers over, so a drop on
\* the list relocates, and a drop on the TrashBox removes, exactly those rows
SelectionFrozenDuringDrag ==
    [][drag # "none" =>
          /\ selected = drag_selected
          /\ last'.op \in {"dropEvent", "trashDrop"} => last'.selected = drag_selected
          /\ (last'.op = "trashDrop" /\ drag = "internal")
                => items' = KeepRows(items, Rows(items) \ drag_selected, 0)
          /\ (last'.op = "dropEvent" /\ drag_selected # {} /\ drop_index # None)
                => items' = Relocated(items, drag_selected, drop_index)]_vars

\* the drag of rows {0, 2} hovered over the list (the target was computed from
\* an item) and was then dropped
SelectionFrozenDuringDragWitness ==
    /\ last.op = "dropEvent"
    /\ last.kind = "internal"
    /\ last.selected = {0, 2}
    /\ last.target = 1
    /\ items = <<last.items[1], last.items[3], last.items[2]>>
    /\ items # last.items

\* C20: every surface acts only on the drag meant for it: the list relocates and
\* the TrashBox removes only for a drag of the list's own rows, and add_pdfs
\* never runs for such a drag; files dragged from outside and dropped on the
\* list never change the order of the rows
SurfacesActOnTheirKind ==
    [][/\ (last'.op = "dropEvent" /\ items' # items) => drag = "internal"
       /\ (last'.op = "trashDrop" /\ items' # items) => drag = "internal"
       /\ last'.op = "add_pdfs" => drag # "internal"]_vars

-----------------------------------------------------------------------------
(* Failures of add_pdfs and create_pdf in one session *)

FailureNext == AddPdfsBatch \/ CreatePdf \/ Extract \/ Merge

\* documents are added and exports are run, from any arrangement, with any of
\* the tools installed
FailureSpec == ExportInit /\ [][FailureNext]_vars

\* the sources of the batch b whose count failed
FailedIn(b) == {k \in 1..Len(b) : count_pages(b[k]) <= 0}

\* C17: every failure is reported and leaves the arrangement untouched: no step
\* of an export (one that ends with nothing to export, with a missing tool, with
\* a failed extraction or merge, or with success) changes the rows, every export
\* that is not called off in the file dialog ends with a message box, and an
\* add_pdfs appends only the pages of its
\* readable sources and shows a box for every source that failed
FailuresReportedArrangementKept ==
    [][/\ exportVars' # exportVars =>
             /\ items' = items
             /\ pc' = "idle" =>
                   \/ report'.kind # "none"
                   \/ pc = "idle" /\ create_pdf_begin(items, tools).proceed
       /\ <<batch, last>>' # <<batch, last>> =>
             /\ items' = items \o PagesOfBatch(batch', 1)
             /\ \A k \in FailedIn(batch') :
                   \E e \in 1..Len(load_errors') : load_errors'[e] = batch'[k]]_vars

-----------------------------------------------------------------------------
(* The pending target _drop_index over the gestures *)

\* C21: every pointer move of a drag over the list stores the planner's index
\* when the marker is at the left of the item and index + 1 otherwise, whatever
\* was stored before; when the drag leaves the list the target becomes None;
\* and a drop that finds the target None relocates nothing
TargetFollowsPointer ==
    [][/\ (drag # "none" /\ hover # "out" /\ hover' = "moved" /\ drop_index' # None)
             => \E p \in Pointers :
                   LET d == compute_drop_position(visualItemRect(items), p)
                   IN  drop_index' = IF d.before THEN d.idx ELSE d.idx + 1
       /\ (drag # "none" /\ hover # "out" /\ hover' = "out" /\ drag' = drag)
             => drop_index' = None
       /\ (last'.op = "dropEvent" /\ drop_index = None)
             => items' = items]_vars

\* C22: no pending target survives the end of a gesture: after every drop on
\* the list (it relocated, it found no target, or it found no selected row) and
\* after every drop on the TrashBox, _drop_index is None
GestureEndClearsTarget ==
    last.op \in {"dropEvent", "trashDrop"} => drop_index = None

\* C23: a stored target is always within 0..count, and a drop that relocates
\* finds its target within 0..count and its adjusted insertion index within
\* 0..(count - |selected|)
TargetInBounds ==
    /\ drop_index # None => drop_index \in 0..Len(items)
    /\ (last.op = "dropEvent" /\ last.selected # {} /\ last.target # None) =>
          /\ last.target \in 0..Len(last.items)
          /\ AdjustedTarget(last.selected, last.target)
                \in 0..(Len(last.items) - Cardinality(last.selected))

====
